---- MODULE Spec2Model ----
(***************************************************************************)
(* POD Design Studio: the design-asset lifecycle of src/App.tsx.           *)
(*                                                                         *)
(* The App component's React state is the state of the machine.  Every    *)
(* event handler is an async function: the code from its entry to its      *)
(* first await is one action (the click), and the code from the resumption *)
(* of an await to the next await (or to the end of the handler) is one     *)
(* action (the completion of a gateway call, succeeding or failing).       *)
(* Handlers that are suspended at an await are the records of `tasks`.     *)
(***************************************************************************)
EXTENDS Integers, Sequences, FiniteSets, TLC

(***************************************************************************)
(* Bounds of the model.                                                    *)
(***************************************************************************)
MaxIds == 2        \* designs ever created (crypto.randomUUID() calls)
MaxTasks == 2      \* handlers suspended at an await at the same time
MaxLines == 1      \* lines of the idea textarea that Inspire Me appends to
MaxClicks == 5     \* user actions (clicks, edits of the textarea) of a session
StorageQuota == 1  \* designs whose serialization fits in the origin's localStorage

(***************************************************************************)
(* Value domains.                                                          *)
(***************************************************************************)
Ideas == {"cat", "dog"}
\* texts the user types into the textarea, as sequences of lines; "" is ''
Prompts == {<<>>, <<"cat">>, <<" ">>, <<" dog", "cat">>}
\* what api.suggestIdea() resolves to (data.text), "" being an empty idea
SuggestedIdeas == {"", "dog"}
\* data URLs: what the transform gateways return, and what image generation returns
Images == {"img1", "img2"}
GeneratedImages == {"img1"}
\* what api.generateMetadataAndPrompt resolves to (data.metadata)
Metadatas ==
    {[Title |-> "title1", Description |-> "description1", Tags |-> "tags1",
      Type |-> "type1", Color |-> "color1"]}
\* the lower bounds of lines 197 and 199, and the divisor of the DPI of line 194
MinPrintWidth == 4500
MinPrintHeight == 5400
InchesPrinted == 15
\* the images the user uploads, with their naturalWidth and naturalHeight
Files == {[name |-> "fileA", width |-> 5000, height |-> 5500]}
Transforms == {"bg", "up"}

VARIABLES
    generatedDesigns,   \* App.tsx:9   the Asset Store (in-memory list)
    ideaPrompt,         \* App.tsx:8   textarea content, a sequence of lines
    isLoading,          \* App.tsx:18
    message,            \* App.tsx:20  the notification, NoMessage for null
    isAnalyzing,        \* App.tsx:23
    analysisResult,     \* App.tsx:24
    tasks,              \* handlers suspended at an await, in the order they started
    nextId,             \* the next value crypto.randomUUID() returns
    durable,            \* App.tsx:11,28  the localStorage slot 'podStudioDesigns'
    wrote,              \* history: what the step taken last did to the slot
    applied,            \* history: transforms the current imageUrl of a design went through
    last,               \* history: the handler step taken last
    clicks              \* history: the number of user actions so far

vars == <<generatedDesigns, ideaPrompt, isLoading, message, isAnalyzing,
          analysisResult, tasks, nextId, durable, wrote, applied, last, clicks>>

Slots == 1..MaxTasks
DesignIds == 1..MaxIds

NoTask == [kind |-> "none"]
NoMetadata == [isNull |-> TRUE]
NoMessage == [text |-> "", isError |-> FALSE]
NoInspiration == [isNull |-> TRUE, ideas |-> <<>>]
NoPrint == [isNull |-> TRUE]
NoFile == [name |-> "null"]
EmptyAnalysis == [printReport |-> NoPrint, inspiration |-> NoInspiration, uploadedImage |-> NoFile]
\* what api.analyzeImageForInspiration resolves to
InspirationResponses == {[isNull |-> FALSE, ideas |-> <<"cat">>]}
\* what api.analyzeImageForPrint resolves to: the JSON the gateway sent, which the
\* client does not check; the four aspects, and any other key the JSON holds
PrintAspects ==
    [color_safety |-> "item", text_readability |-> "item",
     transparency |-> "item", edge_clarity |-> "item"]

PrintResponses ==
    {PrintAspects,
     [color_safety |-> "item", text_readability |-> "item",
      transparency |-> "item", edge_clarity |-> "item",
      resolution |-> [status |-> "fail", details |-> "gateway", suggestion |-> "null"]]}

(***************************************************************************)
(* Pure helpers of the handlers.                                           *)
(***************************************************************************)
\* String.prototype.trim on the lines the model types
Trim(line) ==
    CASE line = " " -> ""
      [] line = " dog" -> "dog"
      [] OTHER -> line

RECURSIVE FilterBoolean(_)
\* Array.prototype.filter(Boolean) on strings: drops the empty ones
FilterBoolean(xs) ==
    IF xs = <<>> THEN <<>>
    ELSE IF Head(xs) = "" THEN FilterBoolean(Tail(xs))
    ELSE <<Head(xs)>> \o FilterBoolean(Tail(xs))

\* ideaPrompt.split('\n').map(idea => idea.trim()).filter(Boolean)
ParseIdeas(prompt) == FilterBoolean([k \in DOMAIN prompt |-> Trim(prompt[k])])

IdsOf(designs) == {designs[k].id : k \in DOMAIN designs}

Has(designs, id) == id \in IdsOf(designs)

\* generatedDesigns.find(d => d.id === id), for an id that is present
Find(designs, id) ==
    designs[CHOOSE k \in DOMAIN designs :
              /\ designs[k].id = id
              /\ \A j \in DOMAIN designs : designs[j].id = id => k <= j]

\* { ...d, ...updates }
Merge(d, updates) ==
    [f \in DOMAIN d |-> IF f \in DOMAIN updates THEN updates[f] ELSE d[f]]

\* C8 mutant: an update of imageUrl also overwrites originalImageUrl
updateDesign_OverwritesOriginal(designs, id, updates) ==
    [k \in DOMAIN designs |->
        IF designs[k].id = id
        THEN [Merge(designs[k], updates) EXCEPT
                 !.originalImageUrl = Merge(designs[k], updates).imageUrl]
        ELSE designs[k]]

\* variant: a record is added for an id the list does not hold
updateDesign_AddsMissing(designs, id, updates) ==
    IF \E k \in DOMAIN designs : designs[k].id = id
    THEN [k \in DOMAIN designs |->
             IF designs[k].id = id THEN Merge(designs[k], updates) ELSE designs[k]]
    ELSE Append(designs, [id |-> id, metadata |-> NoMetadata, imageUrl |-> updates.imageUrl,
                          originalImageUrl |-> updates.imageUrl, originalIdea |-> "none",
                          bgRemoved |-> FALSE, upscaled |-> FALSE])

\* designs.map(d => d.id === id ? { ...d, ...updates } : d)
updateDesign(designs, id, updates) ==
    [k \in DOMAIN designs |->
        IF designs[k].id = id THEN Merge(designs[k], updates) ELSE designs[k]]

\* C10 mutant: the new record is built without its originalImageUrl
NewDesign_NoOriginal(id, metadata, imageUrl, idea) ==
    [id |-> id, metadata |-> metadata, imageUrl |-> imageUrl,
     originalImageUrl |-> "none", originalIdea |-> idea,
     bgRemoved |-> FALSE, upscaled |-> FALSE]

\* the record generateSingleDesign returns on success
NewDesign(id, metadata, imageUrl, idea) ==
    [id |-> id, metadata |-> metadata, imageUrl |-> imageUrl,
     originalImageUrl |-> imageUrl, originalIdea |-> idea,
     bgRemoved |-> FALSE, upscaled |-> FALSE]

showMessage(text, isError) == [text |-> text, isError |-> isError]

(***************************************************************************)
(* Persistence: the slot 'podStudioDesigns' of localStorage.  A slot is    *)
(* absent or holds a text; a text is the empty string, a text JSON.parse   *)
(* rejects, or the JSON text of null, of an object or of an array.  A      *)
(* design is written with its booleans as the literals true and false.     *)
(***************************************************************************)
AbsentSlot == [kind |-> "absent"]

\* JSON.stringify of a boolean, and JSON.parse of the literal
EncodeBoolean(b) == IF b THEN "true" ELSE "false"

DecodeBoolean(text) == text = "true"

EncodeDesign(d) ==
    [id |-> d.id, metadata |-> d.metadata, imageUrl |-> d.imageUrl,
     originalImageUrl |-> d.originalImageUrl, originalIdea |-> d.originalIdea,
     bgRemoved |-> EncodeBoolean(d.bgRemoved), upscaled |-> EncodeBoolean(d.upscaled)]

DecodeDesign(j) ==
    [id |-> j.id, metadata |-> j.metadata, imageUrl |-> j.imageUrl,
     originalImageUrl |-> j.originalImageUrl, originalIdea |-> j.originalIdea,
     bgRemoved |-> DecodeBoolean(j.bgRemoved), upscaled |-> DecodeBoolean(j.upscaled)]

\* JSON.stringify(generatedDesigns)
Serialize(designs) ==
    [kind |-> "array", items |-> [k \in DOMAIN designs |-> EncodeDesign(designs[k])]]

\* the room a text takes in the storage, counted in designs
Size(slot) == IF slot.kind = "array" THEN Len(slot.items) ELSE 0

\* the slots for which the useState initializer yields a list
ListKinds == {"absent", "empty", "invalid", "array"}

\* the useState initializer of lines 9-17: savedDesigns ? JSON.parse(savedDesigns) : [],
\* [] when JSON.parse throws; what JSON.parse returns is not looked at
LoadDesigns(slot) ==
    CASE slot.kind \in {"absent", "empty"} -> <<>>
      [] slot.kind = "invalid" -> <<>>
      [] slot.kind = "array" -> [k \in DOMAIN slot.items |-> DecodeDesign(slot.items[k])]
      [] OTHER -> [notAList |-> slot.kind]

\* the step calls no setGeneratedDesigns: the effect of lines 26-35 does not run
NoWrite == wrote' = "none" /\ UNCHANGED durable

\* C11 mutant: the effect writes the list of the render before the update
Persist_WritesStaleList(m) ==
    IF Size(Serialize(generatedDesigns')) <= StorageQuota
    THEN /\ durable' = Serialize(generatedDesigns)
         /\ wrote' = "ok"
         /\ message' = m
    ELSE /\ durable' = durable
         /\ wrote' = "quota"
         /\ message' = showMessage("quota", TRUE)

\* C12 mutant: the quota error is logged to the console only
Persist_SilentOnQuota(m) ==
    IF Size(Serialize(generatedDesigns')) <= StorageQuota
    THEN /\ durable' = Serialize(generatedDesigns')
         /\ wrote' = "ok"
         /\ message' = m
    ELSE /\ durable' = durable
         /\ wrote' = "quota"
         /\ message' = m

\* the step called setGeneratedDesigns and showed m: the effect of lines 26-35
\* runs on the new list, and shows its own message when setItem throws for the quota
Persist(m) ==
    IF Size(Serialize(generatedDesigns')) <= StorageQuota
    THEN /\ durable' = Serialize(generatedDesigns')
         /\ wrote' = "ok"
         /\ message' = m
    ELSE /\ durable' = durable
         /\ wrote' = "quota"
         /\ message' = showMessage("quota", TRUE)

(***************************************************************************)
(* The results grid and its cards.                                         *)
(***************************************************************************)
\* {!isLoading && <ResultsGrid .../>}, which renders no card for an empty list
GridMounted == ~isLoading /\ generatedDesigns # <<>>

CardKinds == {"bg", "up", "remix"}

\* DesignCard's isProcessing: an action started by the mounted card of the design is running
isProcessing(id) ==
    \E s \in DOMAIN tasks : tasks[s].kind \in CardKinds /\ tasks[s].id = id /\ tasks[s].card

\* A card whose grid is unmounted (isLoading) or whose design left the list is
\* destroyed: the card mounted later for the same design starts with isProcessing false.
Remount(ts, designs, loading) ==
    [s \in DOMAIN ts |->
        IF ts[s].kind \in CardKinds /\ ts[s].card /\ (loading \/ ~Has(designs, ts[s].id))
        THEN [ts[s] EXCEPT !.card = FALSE]
        ELSE ts[s]]

\* the card's buttons can be clicked
CardEnabled(id) == GridMounted /\ Has(generatedDesigns, id) /\ ~isProcessing(id)

\* the model holds at most MaxTasks suspended handlers
HasFreeSlot == Len(tasks) < MaxTasks

\* the handler suspended at position s has run to its end
Remove(s) == [k \in 1..(Len(tasks) - 1) |-> IF k < s THEN tasks[k] ELSE tasks[k + 1]]

\* ideas whose generation is still to come in the suspended handlers
PendingGenerations ==
    LET n(s) == CASE tasks[s].kind = "bulk" -> Len(tasks[s].ideas) - tasks[s].i + 1
                  [] tasks[s].kind \in {"remix", "fromIdea"} -> 1
                  [] OTHER -> 0
        RECURSIVE Sum(_)
        Sum(k) == IF k = 0 THEN 0 ELSE n(k) + Sum(k - 1)
    IN Sum(Len(tasks))

\* randomUUID values are left for k more generations
IdsLeft(k) == (nextId - 1) + PendingGenerations + k <= MaxIds

\* the history of the designs that left the list is dropped
Forget(ap, designs) == [id \in DesignIds |-> IF Has(designs, id) THEN ap[id] ELSE {}]

Step(op, id, task) == [op |-> op, id |-> id, task |-> task]

\* a user action, counted against the length of the session
UserAction == clicks < MaxClicks /\ clicks' = clicks + 1

(***************************************************************************)
(* Initial state: the component after its first render and its first       *)
(* effect, the slot having been absent.                                    *)
(***************************************************************************)
Init ==
    /\ generatedDesigns = <<>>
    /\ ideaPrompt = <<>>
    /\ isLoading = FALSE
    /\ message = NoMessage
    /\ isAnalyzing = FALSE
    /\ analysisResult = EmptyAnalysis
    /\ tasks = <<>>
    /\ nextId = 1
    /\ durable = Serialize(<<>>)
    /\ wrote = "ok"
    /\ applied = [id \in DesignIds |-> {}]
    /\ last = Step("init", 0, NoTask)
    /\ clicks = 0

(***************************************************************************)
(* The textarea (disabled while isLoading).                                *)
(***************************************************************************)
SetIdeaPrompt(p) ==
    /\ UserAction
    /\ ~isLoading
    /\ p # ideaPrompt
    /\ ideaPrompt' = p
    /\ NoWrite
    /\ last' = Step("setIdeaPrompt", 0, NoTask)
    /\ UNCHANGED <<generatedDesigns, isLoading, message, isAnalyzing,
                   analysisResult, tasks, nextId, applied>>

(***************************************************************************)
(* Inspire Me and Niche Research (buttons disabled while isLoading).       *)
(***************************************************************************)
handleSuggestIdea ==
    /\ UserAction
    /\ ~isLoading
    /\ HasFreeSlot
    /\ isLoading' = TRUE
    /\ tasks' = Remount(Append(tasks, [kind |-> "suggest"]), generatedDesigns, TRUE)
    /\ NoWrite
    /\ last' = Step("suggestIdea", 0, NoTask)
    /\ UNCHANGED <<generatedDesigns, ideaPrompt, message, isAnalyzing,
                   analysisResult, nextId, applied>>

\* api.suggestIdea() resolved with `idea`
SuggestDone(s, idea) ==
    /\ s \in DOMAIN tasks
    /\ tasks[s].kind = "suggest"
    /\ idea # "" => Len(ideaPrompt) < MaxLines
    /\ IF idea # ""
       THEN /\ ideaPrompt' = Append(ideaPrompt, idea)
            /\ UNCHANGED message
       ELSE /\ message' = showMessage("error", TRUE)
            /\ UNCHANGED ideaPrompt
    /\ isLoading' = FALSE
    /\ tasks' = Remove(s)
    /\ NoWrite
    /\ last' = Step("suggestDone", 0, NoTask)
    /\ UNCHANGED <<generatedDesigns, isAnalyzing, analysisResult, nextId, applied, clicks>>

\* api.suggestIdea() rejected
SuggestFail(s) ==
    /\ s \in DOMAIN tasks
    /\ tasks[s].kind = "suggest"
    /\ message' = showMessage("error", TRUE)
    /\ isLoading' = FALSE
    /\ tasks' = Remove(s)
    /\ NoWrite
    /\ last' = Step("suggestFail", 0, NoTask)
    /\ UNCHANGED <<generatedDesigns, ideaPrompt, isAnalyzing, analysisResult,
                   nextId, applied, clicks>>

handleNicheResearch ==
    /\ UserAction
    /\ ~isLoading
    /\ HasFreeSlot
    /\ isLoading' = TRUE
    /\ tasks' = Remount(Append(tasks, [kind |-> "niche"]), generatedDesigns, TRUE)
    /\ NoWrite
    /\ last' = Step("nicheResearch", 0, NoTask)
    /\ UNCHANGED <<generatedDesigns, ideaPrompt, message, isAnalyzing,
                   analysisResult, nextId, applied>>

\* api.getNicheResearch() resolved (ok) or rejected; the modal it opens is not modelled
NicheDone(s, ok) ==
    /\ s \in DOMAIN tasks
    /\ tasks[s].kind = "niche"
    /\ message' = IF ok THEN message ELSE showMessage("error", TRUE)
    /\ isLoading' = FALSE
    /\ tasks' = Remove(s)
    /\ NoWrite
    /\ last' = Step(IF ok THEN "nicheDone" ELSE "nicheFail", 0, NoTask)
    /\ UNCHANGED <<generatedDesigns, ideaPrompt, isAnalyzing, analysisResult,
                   nextId, applied, clicks>>

(***************************************************************************)
(* generateSingleDesign, suspended in one of its three callers.            *)
(* A generation handler's record: kind (bulk, remix, fromIdea), ideas, i   *)
(* (the loop index, from 1), newDesigns, phase (the await it is suspended  *)
(* at), metadata (of the resolved first await); for a remix the card's     *)
(* design id and whether that card is still mounted.  History fields:      *)
(* req, the gateway requests of the handler that are outstanding, and      *)
(* outcomes, one boolean per idea whose generation has ended.              *)
(***************************************************************************)
GenKinds == {"bulk", "remix", "fromIdea"}

Request(i, kind) == [idx |-> i, kind |-> kind]

\* the handler enters generateSingleDesign(ideas[i]) and suspends at line 61
StartGeneration(t, i) ==
    [t EXCEPT !.i = i, !.phase = "meta", !.metadata = NoMetadata,
              !.req = {Request(i, "meta")}]

\* C5 mutant: the caller requests the metadata of all its ideas at once
GenTask_AllAtOnce(kind, id, card, ideas) ==
    [kind |-> kind, id |-> id, card |-> card, ideas |-> ideas,
     i |-> 1, newDesigns |-> <<>>, phase |-> "meta", metadata |-> NoMetadata,
     req |-> {Request(k, "meta") : k \in DOMAIN ideas}, outcomes |-> <<>>]

\* a caller of generateSingleDesign at its first call
GenTask(kind, id, card, ideas) ==
    StartGeneration([kind |-> kind, id |-> id, card |-> card, ideas |-> ideas,
                     i |-> 1, newDesigns |-> <<>>, phase |-> "meta",
                     metadata |-> NoMetadata, req |-> {}, outcomes |-> <<>>], 1)

\* C4 mutant: the loop ends at the first idea whose generation fails
ResumeBulk_AbortsOnFailure(s, ok, design, msg) ==
    LET t == tasks[s]
        nd == IF ok THEN Append(t.newDesigns, design) ELSE t.newDesigns
        done == [t EXCEPT !.newDesigns = nd, !.req = {},
                          !.outcomes = Append(t.outcomes, ok)]
        more == ok /\ t.i < Len(t.ideas)
    IN /\ generatedDesigns' = IF ok THEN nd ELSE generatedDesigns
       /\ isLoading' = IF more THEN isLoading ELSE FALSE
       /\ IF ok THEN Persist(msg) ELSE (message' = msg /\ NoWrite)
       /\ tasks' = Remount(IF more THEN [tasks EXCEPT ![s] = StartGeneration(done, t.i + 1)]
                           ELSE Remove(s),
                           generatedDesigns', isLoading')
       /\ applied' = Forget(applied, generatedDesigns')
       /\ last' = Step(IF more THEN "bulkNext" ELSE "bulkEnd", 0, done)

\* variant: a failed generation is not caught and ends the handler
ResumeBulk_ThrowsOnFailure(s, ok, design, msg) ==
    LET t == tasks[s]
        nd == IF ok THEN Append(t.newDesigns, design) ELSE t.newDesigns
        done == [t EXCEPT !.newDesigns = nd, !.req = {},
                          !.outcomes = Append(t.outcomes, ok)]
        more == ok /\ t.i < Len(t.ideas)
    IN /\ generatedDesigns' = IF ok THEN nd ELSE generatedDesigns
       /\ isLoading' = IF more \/ ~ok THEN isLoading ELSE FALSE
       /\ IF ok THEN Persist(msg) ELSE (message' = msg /\ NoWrite)
       /\ tasks' = Remount(IF more THEN [tasks EXCEPT ![s] = StartGeneration(done, t.i + 1)]
                           ELSE Remove(s),
                           generatedDesigns', isLoading')
       /\ applied' = Forget(applied, generatedDesigns')
       /\ last' = Step(IF more THEN "bulkNext" ELSE IF ok THEN "bulkEnd" ELSE "bulkThrown",
                       0, done)

\* handleBulkGeneration from the await of line 93: `design` is what
\* generateSingleDesign returned, ok telling a Design from null
ResumeBulk(s, ok, design, msg) ==
    LET t == tasks[s]
        nd == IF ok THEN Append(t.newDesigns, design) ELSE t.newDesigns
        done == [t EXCEPT !.newDesigns = nd, !.req = {},
                          !.outcomes = Append(t.outcomes, ok)]
        more == t.i < Len(t.ideas)
    IN /\ generatedDesigns' = IF ok THEN nd ELSE generatedDesigns
       /\ isLoading' = IF more THEN isLoading ELSE FALSE
       /\ IF ok THEN Persist(msg) ELSE (message' = msg /\ NoWrite)
       /\ tasks' = Remount(IF more THEN [tasks EXCEPT ![s] = StartGeneration(done, t.i + 1)]
                           ELSE Remove(s),
                           generatedDesigns', isLoading')
       /\ applied' = Forget(applied, generatedDesigns')
       /\ last' = Step(IF more THEN "bulkNext" ELSE "bulkEnd", 0, done)

\* C3 mutant: a successful remix replaces the list by the new design
ResumeRemix_Replaces(s, ok, design, msg) ==
    /\ generatedDesigns' = IF ok THEN <<design>> ELSE generatedDesigns
    /\ IF ok THEN Persist(showMessage("info", FALSE)) ELSE (message' = msg /\ NoWrite)
    /\ tasks' = Remove(s)
    /\ last' = Step(IF ok THEN "remixOk" ELSE "remixFail", tasks[s].id, tasks[s])
    /\ UNCHANGED <<isLoading, applied>>

\* handleRemix from the await of line 147
ResumeRemix(s, ok, design, msg) ==
    /\ generatedDesigns' = IF ok THEN Append(generatedDesigns, design) ELSE generatedDesigns
    /\ IF ok THEN Persist(showMessage("info", FALSE)) ELSE (message' = msg /\ NoWrite)
    /\ tasks' = Remove(s)
    /\ last' = Step(IF ok THEN "remixOk" ELSE "remixFail", tasks[s].id, tasks[s])
    /\ UNCHANGED <<isLoading, applied>>

\* C14 mutant: the new design is put in front of the list
ResumeFromIdea_Prepends(s, ok, design, msg) ==
    /\ generatedDesigns' = IF ok THEN <<design>> \o generatedDesigns ELSE generatedDesigns
    /\ IF ok THEN Persist(showMessage("info", FALSE)) ELSE (message' = msg /\ NoWrite)
    /\ isLoading' = FALSE
    /\ tasks' = Remove(s)
    /\ last' = Step(IF ok THEN "fromIdeaOk" ELSE "fromIdeaFail", 0, tasks[s])
    /\ UNCHANGED applied

\* handleGenerateFromIdea from the await of line 216
ResumeFromIdea(s, ok, design, msg) ==
    /\ generatedDesigns' = IF ok THEN Append(generatedDesigns, design) ELSE generatedDesigns
    /\ IF ok THEN Persist(showMessage("info", FALSE)) ELSE (message' = msg /\ NoWrite)
    /\ isLoading' = FALSE
    /\ tasks' = Remove(s)
    /\ last' = Step(IF ok THEN "fromIdeaOk" ELSE "fromIdeaFail", 0, tasks[s])
    /\ UNCHANGED applied

\* the caller of generateSingleDesign goes on with what it returned
Resume(s, ok, design, msg) ==
    CASE tasks[s].kind = "bulk" -> ResumeBulk(s, ok, design, msg)
      [] tasks[s].kind = "remix" -> ResumeRemix(s, ok, design, msg)
      [] tasks[s].kind = "fromIdea" -> ResumeFromIdea(s, ok, design, msg)

\* api.generateMetadataAndPrompt resolved: line 62 issues the image request
GenMetaOk(s, metadata) ==
    /\ s \in DOMAIN tasks
    /\ tasks[s].kind \in GenKinds
    /\ Request(tasks[s].i, "meta") \in tasks[s].req
    /\ tasks' = [tasks EXCEPT ![s].phase = "image", ![s].metadata = metadata,
                              ![s].req = {Request(tasks[s].i, "image")}]
    /\ NoWrite
    /\ last' = Step("genMetaOk", 0, NoTask)
    /\ UNCHANGED <<generatedDesigns, ideaPrompt, isLoading, message, isAnalyzing,
                   analysisResult, nextId, applied, clicks>>

\* api.generateImageFromPrompt resolved: lines 63-71 build the Design
GenImageOk(s, imageUrl) ==
    /\ s \in DOMAIN tasks
    /\ tasks[s].kind \in GenKinds
    /\ Request(tasks[s].i, "image") \in tasks[s].req
    /\ nextId' = nextId + 1
    /\ Resume(s, TRUE,
              NewDesign(nextId, tasks[s].metadata, imageUrl, tasks[s].ideas[tasks[s].i]),
              message)
    /\ UNCHANGED <<ideaPrompt, isAnalyzing, analysisResult, clicks>>

\* either await of generateSingleDesign rejected: the catch of lines 72-76
GenFail(s) ==
    /\ s \in DOMAIN tasks
    /\ tasks[s].kind \in GenKinds
    /\ tasks[s].req # {}
    /\ Resume(s, FALSE, NewDesign(0, NoMetadata, "none", "none"), showMessage("error", TRUE))
    /\ UNCHANGED <<ideaPrompt, isAnalyzing, analysisResult, nextId, clicks>>

(***************************************************************************)
(* Generate Bulk Designs (button disabled while isLoading).                *)
(***************************************************************************)
\* variant: the store is emptied before the idea list is looked at
handleBulkGeneration_ClearsFirst ==
    /\ UserAction
    /\ ~isLoading
    /\ IF ParseIdeas(ideaPrompt) = <<>>
       THEN /\ generatedDesigns' = <<>>
            /\ Persist(showMessage("error", TRUE))
            /\ tasks' = Remount(tasks, <<>>, isLoading)
            /\ applied' = Forget(applied, <<>>)
            /\ last' = Step("bulkRejected", 0, NoTask)
            /\ UNCHANGED isLoading
       ELSE /\ HasFreeSlot
            /\ IdsLeft(Len(ParseIdeas(ideaPrompt)))
            /\ isLoading' = TRUE
            /\ generatedDesigns' = <<>>
            /\ Persist(NoMessage)
            /\ tasks' = Remount(Append(tasks, GenTask("bulk", 0, FALSE, ParseIdeas(ideaPrompt))),
                                <<>>, TRUE)
            /\ applied' = Forget(applied, <<>>)
            /\ last' = Step("bulkStart", 0, NoTask)
    /\ UNCHANGED <<ideaPrompt, isAnalyzing, analysisResult, nextId>>

handleBulkGeneration ==
    /\ UserAction
    /\ ~isLoading
    /\ IF ParseIdeas(ideaPrompt) = <<>>
       THEN /\ message' = showMessage("error", TRUE)
            /\ NoWrite
            /\ last' = Step("bulkRejected", 0, NoTask)
            /\ UNCHANGED <<generatedDesigns, isLoading, tasks, applied>>
       ELSE /\ HasFreeSlot
            /\ IdsLeft(Len(ParseIdeas(ideaPrompt)))
            /\ isLoading' = TRUE
            /\ generatedDesigns' = <<>>
            /\ Persist(NoMessage)
            /\ tasks' = Remount(Append(tasks, GenTask("bulk", 0, FALSE, ParseIdeas(ideaPrompt))),
                                <<>>, TRUE)
            /\ applied' = Forget(applied, <<>>)
            /\ last' = Step("bulkStart", 0, NoTask)
    /\ UNCHANGED <<ideaPrompt, isAnalyzing, analysisResult, nextId>>

(***************************************************************************)
(* The card actions BG and 2x.  A transform handler's record: kind, the    *)
(* design id, src (design.imageUrl read at line 116/130 and sent to the    *)
(* gateway), card (the card that started it is still mounted), and the     *)
(* history field prov: the transforms src had gone through.                *)
(***************************************************************************)
TransformTask(kind, id, design) ==
    [kind |-> kind, id |-> id, card |-> TRUE, src |-> design.imageUrl,
     prov |-> applied[id]]

\* C9 mutant: the request is issued whatever the bgRemoved flag
handleRemoveBackground_NoFlagCheck(id) ==
    /\ UserAction
    /\ CardEnabled(id)
    /\ HasFreeSlot
    /\ tasks' = Append(tasks, TransformTask("bg", id, Find(generatedDesigns, id)))
    /\ NoWrite
    /\ last' = Step("removeBackground", id, NoTask)
    /\ UNCHANGED <<generatedDesigns, ideaPrompt, isLoading, message, isAnalyzing,
                   analysisResult, nextId, applied>>

handleRemoveBackground(id) ==
    /\ UserAction
    /\ CardEnabled(id)
    /\ IF Find(generatedDesigns, id).bgRemoved
       THEN UNCHANGED tasks
       ELSE /\ HasFreeSlot
            /\ tasks' = Append(tasks, TransformTask("bg", id, Find(generatedDesigns, id)))
    /\ NoWrite
    /\ last' = Step("removeBackground", id, NoTask)
    /\ UNCHANGED <<generatedDesigns, ideaPrompt, isLoading, message, isAnalyzing,
                   analysisResult, nextId, applied>>

handleUpscale(id) ==
    /\ UserAction
    /\ CardEnabled(id)
    /\ IF Find(generatedDesigns, id).upscaled
       THEN UNCHANGED tasks
       ELSE /\ HasFreeSlot
            /\ tasks' = Append(tasks, TransformTask("up", id, Find(generatedDesigns, id)))
    /\ NoWrite
    /\ last' = Step("upscale", id, NoTask)
    /\ UNCHANGED <<generatedDesigns, ideaPrompt, isLoading, message, isAnalyzing,
                   analysisResult, nextId, applied>>

\* the updates of line 122 (bg) and of line 136 (up)
TransformUpdates(kind, newImageUrl) ==
    IF kind = "bg" THEN [imageUrl |-> newImageUrl, bgRemoved |-> TRUE]
    ELSE [imageUrl |-> newImageUrl, upscaled |-> TRUE]

\* api.removeBackground / api.upscaleImage and blobToDataUrl resolved
TransformOk(s, newImageUrl) ==
    /\ s \in DOMAIN tasks
    /\ tasks[s].kind \in Transforms
    /\ generatedDesigns' = updateDesign(generatedDesigns, tasks[s].id,
                                        TransformUpdates(tasks[s].kind, newImageUrl))
    /\ Persist(showMessage("info", FALSE))
    /\ applied' = IF Has(generatedDesigns, tasks[s].id)
                  THEN [applied EXCEPT ![tasks[s].id] = tasks[s].prov \cup {tasks[s].kind}]
                  ELSE applied
    /\ tasks' = Remove(s)
    /\ last' = Step("transformOk", tasks[s].id, tasks[s])
    /\ UNCHANGED <<ideaPrompt, isLoading, isAnalyzing, analysisResult, nextId, clicks>>

\* C7 mutant: the failed transform still marks the design as transformed
TransformFail_MarksDesign(s) ==
    /\ s \in DOMAIN tasks
    /\ tasks[s].kind \in Transforms
    /\ generatedDesigns' = updateDesign(generatedDesigns, tasks[s].id,
                                        TransformUpdates(tasks[s].kind, tasks[s].src))
    /\ Persist(showMessage("error", TRUE))
    /\ tasks' = Remove(s)
    /\ last' = Step("transformFail", tasks[s].id, tasks[s])
    /\ UNCHANGED <<ideaPrompt, isLoading, isAnalyzing, analysisResult, nextId, applied, clicks>>

\* the gateway call or blobToDataUrl rejected: the catch of line 124/138
TransformFail(s) ==
    /\ s \in DOMAIN tasks
    /\ tasks[s].kind \in Transforms
    /\ message' = showMessage("error", TRUE)
    /\ tasks' = Remove(s)
    /\ NoWrite
    /\ last' = Step("transformFail", tasks[s].id, tasks[s])
    /\ UNCHANGED <<generatedDesigns, ideaPrompt, isLoading, isAnalyzing,
                   analysisResult, nextId, applied, clicks>>

handleRevert(id) ==
    /\ UserAction
    /\ CardEnabled(id)
    /\ IF Find(generatedDesigns, id).imageUrl = Find(generatedDesigns, id).originalImageUrl
       THEN UNCHANGED <<generatedDesigns, message, applied>> /\ NoWrite
       ELSE /\ generatedDesigns' = updateDesign(generatedDesigns, id,
                   [imageUrl |-> Find(generatedDesigns, id).originalImageUrl,
                    bgRemoved |-> FALSE, upscaled |-> FALSE])
            /\ Persist(showMessage("info", FALSE))
            /\ applied' = [applied EXCEPT ![id] = {}]
    /\ last' = Step("revert", id, NoTask)
    /\ UNCHANGED <<ideaPrompt, isLoading, isAnalyzing, analysisResult, tasks, nextId>>

handleRemix(id) ==
    /\ UserAction
    /\ CardEnabled(id)
    /\ HasFreeSlot
    /\ IdsLeft(1)
    /\ message' = showMessage("info", FALSE)
    /\ tasks' = Append(tasks, GenTask("remix", id, TRUE,
                                      <<Find(generatedDesigns, id).originalIdea>>))
    /\ NoWrite
    /\ last' = Step("remix", id, NoTask)
    /\ UNCHANGED <<generatedDesigns, ideaPrompt, isLoading, isAnalyzing,
                   analysisResult, nextId, applied>>

\* C15 mutant: the list is emptied whatever window.confirm answers
handleClearSession_IgnoresAnswer(confirmed) ==
    /\ UserAction
    /\ GridMounted
    /\ generatedDesigns' = <<>>
    /\ Persist(showMessage("info", FALSE))
    /\ tasks' = Remount(tasks, <<>>, isLoading)
    /\ applied' = Forget(applied, <<>>)
    /\ last' = Step(IF confirmed THEN "clear" ELSE "clearDeclined", 0, NoTask)
    /\ UNCHANGED <<ideaPrompt, isLoading, isAnalyzing, analysisResult, nextId>>

\* Clear Session, a button of the mounted grid; confirmed is window.confirm's answer
handleClearSession(confirmed) ==
    /\ UserAction
    /\ GridMounted
    /\ IF confirmed
       THEN /\ generatedDesigns' = <<>>
            /\ Persist(showMessage("info", FALSE))
            /\ tasks' = Remount(tasks, <<>>, isLoading)
            /\ applied' = Forget(applied, <<>>)
       ELSE UNCHANGED <<generatedDesigns, message, tasks, applied>> /\ NoWrite
    /\ last' = Step(IF confirmed THEN "clear" ELSE "clearDeclined", 0, NoTask)
    /\ UNCHANGED <<ideaPrompt, isLoading, isAnalyzing, analysisResult, nextId>>

(***************************************************************************)
(* Upload & Inspire.  An upload handler's record: file, phase ("read": at  *)
(* the awaits of lines 180-186; "analyze": at the Promise.all of line 189) *)
(* and which of the two analyses have resolved.                            *)
(***************************************************************************)
handleImageUpload(file) ==
    /\ UserAction
    /\ HasFreeSlot
    /\ isAnalyzing' = TRUE
    /\ analysisResult' = EmptyAnalysis
    /\ message' = NoMessage
    /\ tasks' = Append(tasks, [kind |-> "upload", file |-> file, phase |-> "read",
                               inspiration |-> NoInspiration, print |-> NoPrint])
    /\ NoWrite
    /\ last' = Step("imageUpload", 0, NoTask)
    /\ UNCHANGED <<generatedDesigns, ideaPrompt, isLoading, nextId, applied>>

\* blobToBase64 and the image load resolved: both analyses are requested
UploadReadOk(s) ==
    /\ s \in DOMAIN tasks
    /\ tasks[s].kind = "upload" /\ tasks[s].phase = "read"
    /\ tasks' = [tasks EXCEPT ![s].phase = "analyze"]
    /\ NoWrite
    /\ last' = Step("uploadReadOk", 0, NoTask)
    /\ UNCHANGED <<generatedDesigns, ideaPrompt, isLoading, message, isAnalyzing,
                   analysisResult, nextId, applied, clicks>>

\* the file was read but the browser cannot decode it as an image: the promise of
\* line 186 has no onerror and is never settled, so the handler stays suspended
UploadDecodeFails(s) ==
    /\ s \in DOMAIN tasks
    /\ tasks[s].kind = "upload" /\ tasks[s].phase = "read"
    /\ tasks' = [tasks EXCEPT ![s].phase = "hung"]
    /\ NoWrite
    /\ last' = Step("uploadDecodeFails", 0, NoTask)
    /\ UNCHANGED <<generatedDesigns, ideaPrompt, isLoading, message, isAnalyzing,
                   analysisResult, nextId, applied, clicks>>

\* the responses api.analyzeImageForInspiration / api.analyzeImageForPrint resolve to
AnalysisResponses(which) ==
    IF which = "inspiration" THEN InspirationResponses ELSE PrintResponses

\* the responses that follow the responseSchema of the gateway
SchemaResponses(which) ==
    IF which = "inspiration" THEN InspirationResponses ELSE {PrintAspects}

\* the handler's record once one more analysis has resolved
Analyzed(t, which, response) ==
    IF which = "inspiration" THEN [t EXCEPT !.inspiration = response]
    ELSE [t EXCEPT !.print = response]

\* Math.round(Math.max(naturalWidth, naturalHeight) / 15)
Dpi(width, height) ==
    (2 * (IF width >= height THEN width ELSE height) + InchesPrinted) \div (2 * InchesPrinted)

\* variant: one sufficient side passes
ResolutionVerdict_EitherSide(width, height) ==
    [status |-> IF width >= MinPrintWidth \/ height >= MinPrintHeight THEN "pass" ELSE "warn",
     details |-> [width |-> width, height |-> height, dpi |-> Dpi(width, height)],
     suggestion |-> IF width < MinPrintWidth /\ height < MinPrintHeight
                    THEN "upscale" ELSE "null"]

\* the resolution entry of lines 196-200
ResolutionVerdict(width, height) ==
    [status |-> IF width >= MinPrintWidth /\ height >= MinPrintHeight THEN "pass" ELSE "warn",
     details |-> [width |-> width, height |-> height, dpi |-> Dpi(width, height)],
     suggestion |-> IF width < MinPrintWidth \/ height < MinPrintHeight
                    THEN "upscale" ELSE "null"]

\* { ...a, ...b }
Spread(a, b) ==
    [k \in DOMAIN a \cup DOMAIN b |-> IF k \in DOMAIN b THEN b[k] ELSE a[k]]

\* finalReport of lines 195-202: { resolution: ..., ...printResponse }
FinalReport(file, printResponse) ==
    Spread([resolution |-> ResolutionVerdict(file.width, file.height)], printResponse)

\* one of the two analyses resolved; lines 194-204 and 209 once both have
UploadAnalysisOk(s, which, response) ==
    /\ s \in DOMAIN tasks
    /\ tasks[s].kind = "upload" /\ tasks[s].phase = "analyze"
    /\ IF which = "inspiration" THEN tasks[s].inspiration.isNull ELSE tasks[s].print = NoPrint
    /\ IF /\ ~Analyzed(tasks[s], which, response).inspiration.isNull
          /\ Analyzed(tasks[s], which, response).print # NoPrint
       THEN /\ analysisResult' =
                  [printReport |-> FinalReport(tasks[s].file,
                                               Analyzed(tasks[s], which, response).print),
                   inspiration |-> Analyzed(tasks[s], which, response).inspiration,
                   uploadedImage |-> tasks[s].file]
            /\ isAnalyzing' = FALSE
            /\ tasks' = Remove(s)
       ELSE /\ tasks' = [tasks EXCEPT ![s] = Analyzed(tasks[s], which, response)]
            /\ UNCHANGED <<analysisResult, isAnalyzing>>
    /\ NoWrite
    /\ last' = Step("uploadAnalysisOk", s, Analyzed(tasks[s], which, response))
    /\ UNCHANGED <<generatedDesigns, ideaPrompt, isLoading, message, nextId, applied, clicks>>

\* the file read or one of the analyses rejected: the catch and finally of lines 206-210
UploadFail(s) ==
    /\ s \in DOMAIN tasks
    /\ tasks[s].kind = "upload"
    /\ tasks[s].phase \in {"read", "analyze"}
    /\ message' = showMessage("error", TRUE)
    /\ isAnalyzing' = FALSE
    /\ tasks' = Remove(s)
    /\ NoWrite
    /\ last' = Step("uploadFail", s, tasks[s])
    /\ UNCHANGED <<generatedDesigns, ideaPrompt, isLoading, analysisResult, nextId,
                   applied, clicks>>

\* the Generate button of an idea of the displayed inspiration (UploadAnalysis.tsx:84, 134-137)
handleGenerateFromIdea(description) ==
    /\ UserAction
    /\ ~isAnalyzing
    /\ ~analysisResult.inspiration.isNull
    /\ \E k \in DOMAIN analysisResult.inspiration.ideas :
          analysisResult.inspiration.ideas[k] = description
    /\ HasFreeSlot
    /\ IdsLeft(1)
    /\ isLoading' = TRUE
    /\ tasks' = Remount(Append(tasks, GenTask("fromIdea", 0, FALSE, <<description>>)),
                        generatedDesigns, TRUE)
    /\ NoWrite
    /\ last' = Step("generateFromIdea", 0, NoTask)
    /\ UNCHANGED <<generatedDesigns, ideaPrompt, message, isAnalyzing, analysisResult,
                   nextId, applied>>

(***************************************************************************)
(* Download Metadata (part_002:126): the rows api.downloadMetadataAsXLSX   *)
(* hands to XLSX.utils.json_to_sheet for the sheet of 'metadata.xlsx'.     *)
(***************************************************************************)
\* variant: the idea column is filled from the title
downloadMetadataAsXLSX_IdeaFromTitle(designs) ==
    [k \in DOMAIN designs |->
        [Title |-> designs[k].metadata.Title,
         Description |-> designs[k].metadata.Description,
         Tags |-> designs[k].metadata.Tags,
         Type |-> designs[k].metadata.Type,
         Color |-> designs[k].metadata.Color,
         OriginalIdea |-> designs[k].metadata.Title]]

downloadMetadataAsXLSX(designs) ==
    [k \in DOMAIN designs |->
        [Title |-> designs[k].metadata.Title,
         Description |-> designs[k].metadata.Description,
         Tags |-> designs[k].metadata.Tags,
         Type |-> designs[k].metadata.Type,
         Color |-> designs[k].metadata.Color,
         OriginalIdea |-> designs[k].originalIdea]]

onDownloadMetadata ==
    /\ UserAction
    /\ GridMounted
    /\ NoWrite
    /\ last' = Step("downloadMetadata", 0,
                    [kind |-> "export", rows |-> downloadMetadataAsXLSX(generatedDesigns)])
    /\ UNCHANGED <<generatedDesigns, ideaPrompt, isLoading, message, isAnalyzing,
                   analysisResult, tasks, nextId, applied>>

(***************************************************************************)
(* Download All Images (part_002:123): the entries api.downloadAllImagesAsZip *)
(* adds to the archive.  A title is a sequence of characters here.         *)
(***************************************************************************)
LowerCase == {"a"}
UpperCase == {"B"}
Digits == {"7"}
Chars == LowerCase \cup UpperCase \cup Digits \cup {"!"}

\* String.prototype.toLowerCase on one character
toLowerCase(c) == IF c = "B" THEN "b" ELSE c

\* title.replace(/[^a-z0-9]/gi, '_').toLowerCase()
Slug(title) ==
    [k \in DOMAIN title |->
        IF title[k] \in LowerCase \cup UpperCase \cup Digits
        THEN toLowerCase(title[k]) ELSE "_"]

\* the entry name of the design at position index (from 0): slug || `design_${index + 1}`
EntryName(design, index) ==
    [stem |-> IF Slug(design.metadata.Title) # <<>>
              THEN Slug(design.metadata.Title)
              ELSE <<"design_", index + 1>>,
     extension |-> ".png"]

downloadAllImagesAsZip(designs) ==
    [k \in DOMAIN designs |-> [name |-> EntryName(designs[k], k - 1),
                               blob |-> designs[k].imageUrl]]

onDownloadAll ==
    /\ UserAction
    /\ GridMounted
    /\ NoWrite
    /\ last' = Step("downloadAll", 0,
                    [kind |-> "zip", entries |-> downloadAllImagesAsZip(generatedDesigns)])
    /\ UNCHANGED <<generatedDesigns, ideaPrompt, isLoading, message, isAnalyzing,
                   analysisResult, tasks, nextId, applied>>

(***************************************************************************)
(* The Edit button of a card (part_002:65, 117) calls the onEdit prop of    *)
(* ResultsGrid with the design's id.  App mounts ResultsGrid without that  *)
(* prop (App.tsx:298) and mounts no ImageEditor: the call is a call of      *)
(* undefined, which throws a TypeError in the click handler, and no state  *)
(* of App changes.                                                         *)
(***************************************************************************)
\* the props App.tsx:298 gives ResultsGrid
ResultsGridProps ==
    {"designs", "onRemoveBackground", "onUpscale", "onRemix", "onRevert",
     "onDownloadAll", "onDownloadMetadata", "onClearSession"}

onEdit(id) ==
    /\ UserAction
    /\ CardEnabled(id)
    /\ NoWrite
    /\ last' = Step("edit", id,
                    [kind |-> IF "onEdit" \in ResultsGridProps THEN "editor" ELSE "TypeError"])
    /\ UNCHANGED <<generatedDesigns, ideaPrompt, isLoading, message, isAnalyzing,
                   analysisResult, tasks, nextId, applied>>

(***************************************************************************)
(* A start of the application on a slot left in the storage (a reload of   *)
(* the page): every handler of the page before is gone, the state is the   *)
(* useState initial values, and the first effect writes the loaded list.   *)
(* When the initializer yields no list, the first render throws in         *)
(* ResultsGrid (designs.length, designs.map) and nothing is mounted.       *)
(***************************************************************************)
\* the transforms the flags of a loaded design stand for
FlagsOf(d) == {t \in Transforms : IF t = "bg" THEN d.bgRemoved ELSE d.upscaled}

Reload ==
    /\ UserAction
    /\ generatedDesigns' = LoadDesigns(durable)
    /\ ideaPrompt' = <<>>
    /\ isLoading' = FALSE
    /\ isAnalyzing' = FALSE
    /\ analysisResult' = EmptyAnalysis
    /\ tasks' = <<>>
    /\ IF durable.kind \in ListKinds
       THEN /\ Persist(NoMessage)
            /\ applied' = [id \in DesignIds |->
                              IF Has(generatedDesigns', id)
                              THEN FlagsOf(Find(generatedDesigns', id)) ELSE {}]
            /\ last' = Step("start", 0, NoTask)
       ELSE /\ message' = NoMessage
            /\ NoWrite
            /\ applied' = [id \in DesignIds |-> {}]
            /\ last' = Step("startFailed", 0, NoTask)
    /\ UNCHANGED nextId

Next ==
    \/ \E p \in Prompts : SetIdeaPrompt(p)
    \/ handleSuggestIdea
    \/ \E s \in Slots, idea \in SuggestedIdeas : SuggestDone(s, idea)
    \/ \E s \in Slots : SuggestFail(s)
    \/ handleNicheResearch
    \/ \E s \in Slots, ok \in BOOLEAN : NicheDone(s, ok)
    \/ handleBulkGeneration
    \/ \E s \in Slots, metadata \in Metadatas : GenMetaOk(s, metadata)
    \/ \E s \in Slots, imageUrl \in GeneratedImages : GenImageOk(s, imageUrl)
    \/ \E s \in Slots : GenFail(s)
    \/ \E id \in DesignIds : handleRemoveBackground(id)
    \/ \E id \in DesignIds : handleUpscale(id)
    \/ \E s \in Slots, newImageUrl \in Images : TransformOk(s, newImageUrl)
    \/ \E s \in Slots : TransformFail(s)
    \/ \E id \in DesignIds : handleRevert(id)
    \/ \E id \in DesignIds : handleRemix(id)
    \/ \E confirmed \in BOOLEAN : handleClearSession(confirmed)
    \/ \E file \in Files : handleImageUpload(file)
    \/ \E s \in Slots : UploadReadOk(s)
    \/ \E s \in Slots, which \in {"inspiration", "print"} :
          \E response \in SchemaResponses(which) : UploadAnalysisOk(s, which, response)
    \/ \E s \in Slots : UploadFail(s)
    \/ \E description \in Ideas : handleGenerateFromIdea(description)
    \/ onDownloadMetadata
    \/ Reload

Spec == Init /\ [][Next]_vars

(***************************************************************************)
(* The start of the application on any content of the slot: the designs    *)
(* a stored list can hold, and the contents of the slot.                   *)
(***************************************************************************)
StoredDesigns ==
    {EncodeDesign([id |-> id, metadata |-> metadata, imageUrl |-> imageUrl,
                   originalImageUrl |-> originalImageUrl, originalIdea |-> idea,
                   bgRemoved |-> bgRemoved, upscaled |-> upscaled]) :
        id \in DesignIds, metadata \in Metadatas, imageUrl \in Images,
        originalImageUrl \in Images, idea \in Ideas,
        bgRemoved \in BOOLEAN, upscaled \in BOOLEAN}

\* the texts JSON.stringify wrote within the quota
StoredLists ==
    {[kind |-> "array", items |-> items] :
        items \in UNION {[1..n -> StoredDesigns] : n \in 0..StorageQuota}}

SlotContents ==
    {AbsentSlot, [kind |-> "empty"], [kind |-> "invalid"], [kind |-> "null"],
     [kind |-> "object"]} \cup StoredLists

StartInit ==
    /\ durable \in SlotContents
    /\ generatedDesigns = <<>>
    /\ ideaPrompt = <<>>
    /\ isLoading = FALSE
    /\ message = NoMessage
    /\ isAnalyzing = FALSE
    /\ analysisResult = EmptyAnalysis
    /\ tasks = <<>>
    /\ nextId = 1
    /\ wrote = "none"
    /\ applied = [id \in DesignIds |-> {}]
    /\ last = Step("init", 0, NoTask)
    /\ clicks = 0

StartNext == Reload

StartSpec == StartInit /\ [][StartNext]_vars

(***************************************************************************)
(* The print report of one upload, for images of any dimensions and any    *)
(* JSON the gateway answers: the state after handleImageUpload(file), then *)
(* the steps of that handler.                                              *)
(***************************************************************************)
Widths == {1, 3000, 4499, 4500, 5000}
Heights == {1, 4000, 5399, 5400, 5500}
TestFiles == {[name |-> "file", width |-> w, height |-> h] : w \in Widths, h \in Heights}

ReportInit ==
    /\ generatedDesigns = <<>>
    /\ ideaPrompt = <<>>
    /\ isLoading = FALSE
    /\ message = NoMessage
    /\ isAnalyzing = TRUE
    /\ analysisResult = EmptyAnalysis
    /\ \E file \in TestFiles :
          tasks = <<[kind |-> "upload", file |-> file, phase |-> "read",
                     inspiration |-> NoInspiration, print |-> NoPrint]>>
    /\ nextId = 1
    /\ durable = Serialize(<<>>)
    /\ wrote = "none"
    /\ applied = [id \in DesignIds |-> {}]
    /\ last = Step("imageUpload", 0, NoTask)
    /\ clicks = 1

ReportNext ==
    \/ \E s \in Slots : UploadReadOk(s)
    \/ \E s \in Slots, which \in {"inspiration", "print"} :
          \E response \in AnalysisResponses(which) : UploadAnalysisOk(s, which, response)
    \/ \E s \in Slots : UploadFail(s)

ReportSpec == ReportInit /\ [][ReportNext]_vars

(***************************************************************************)
(* The metadata export on any store snapshot: lists of designs as the      *)
(* generation handlers create them, with ids in creation order, and the    *)
(* slot holding what the last write within the quota left.                 *)
(***************************************************************************)
ExportMetadatas ==
    Metadatas \cup {[Title |-> "title2", Description |-> "description2", Tags |-> "tags2",
                     Type |-> "type2", Color |-> "color2"]}

ExportDesigns ==
    {NewDesign(id, metadata, imageUrl, idea) :
        id \in DesignIds, metadata \in ExportMetadatas, imageUrl \in Images, idea \in Ideas}

Snapshots ==
    {designs \in UNION {[1..n -> ExportDesigns] : n \in 0..MaxIds} :
        \A j, k \in DOMAIN designs : j < k => designs[j].id < designs[k].id}

ExportInit ==
    /\ generatedDesigns \in Snapshots
    /\ ideaPrompt = <<>>
    /\ isLoading = FALSE
    /\ message = NoMessage
    /\ isAnalyzing = FALSE
    /\ analysisResult = EmptyAnalysis
    /\ tasks = <<>>
    /\ nextId = MaxIds + 1
    /\ durable = Serialize(SubSeq(generatedDesigns, 1,
                                  IF Len(generatedDesigns) <= StorageQuota
                                  THEN Len(generatedDesigns) ELSE StorageQuota))
    /\ wrote = "none"
    /\ applied = [id \in DesignIds |-> {}]
    /\ last = Step("init", 0, NoTask)
    /\ clicks = 0

ExportNext == onDownloadMetadata

ExportSpec == ExportInit /\ [][ExportNext]_vars

(***************************************************************************)
(* The archive of any store snapshot whose titles are any short text.      *)
(***************************************************************************)
MaxTitle == 2

Titles == UNION {[1..n -> Chars] : n \in 0..MaxTitle}

ZipDesigns ==
    {NewDesign(id, [Title |-> title, Description |-> "description1", Tags |-> "tags1",
                    Type |-> "type1", Color |-> "color1"], "img1", "cat") :
        id \in DesignIds, title \in Titles}

ZipSnapshots ==
    {designs \in UNION {[1..n -> ZipDesigns] : n \in 0..MaxIds} :
        \A j, k \in DOMAIN designs : j < k => designs[j].id < designs[k].id}

ZipInit ==
    /\ generatedDesigns \in ZipSnapshots
    /\ ideaPrompt = <<>>
    /\ isLoading = FALSE
    /\ message = NoMessage
    /\ isAnalyzing = FALSE
    /\ analysisResult = EmptyAnalysis
    /\ tasks = <<>>
    /\ nextId = MaxIds + 1
    /\ durable = Serialize(SubSeq(generatedDesigns, 1,
                                  IF Len(generatedDesigns) <= StorageQuota
                                  THEN Len(generatedDesigns) ELSE StorageQuota))
    /\ wrote = "none"
    /\ applied = [id \in DesignIds |-> {}]
    /\ last = Step("init", 0, NoTask)
    /\ clicks = 0

ZipNext == onDownloadAll

ZipSpec == ZipInit /\ [][ZipNext]_vars

(***************************************************************************)
(* The Edit buttons of the cards of any store snapshot.                    *)
(***************************************************************************)
EditNext == \E id \in DesignIds : onEdit(id)

EditSpec == ExportInit /\ [][EditNext]_vars

(***************************************************************************)
(* The generations of one session under the assumption that every gateway  *)
(* call eventually returns or fails: each await of a suspended handler is  *)
(* eventually resumed.                                                     *)
(***************************************************************************)
GatewayReturns ==
    \/ \E s \in Slots, idea \in SuggestedIdeas : SuggestDone(s, idea)
    \/ \E s \in Slots : SuggestFail(s)
    \/ \E s \in Slots, metadata \in Metadatas : GenMetaOk(s, metadata)
    \/ \E s \in Slots, imageUrl \in GeneratedImages : GenImageOk(s, imageUrl)
    \/ \E s \in Slots : GenFail(s)

BulkNext ==
    \/ \E p \in Prompts : SetIdeaPrompt(p)
    \/ handleSuggestIdea
    \/ handleBulkGeneration
    \/ \E id \in DesignIds : handleRemix(id)
    \/ \E confirmed \in BOOLEAN : handleClearSession(confirmed)
    \/ GatewayReturns

BulkSpec == Init /\ [][BulkNext]_vars /\ WF_vars(GatewayReturns)

(***************************************************************************)
(* The two server handlers (src/api/clipdrop.ts and the gemini handler of  *)
(* part_000).  A request under way is a record of kind "request" of        *)
(* `tasks`: the handler it is sent to, its method, whether the handler's   *)
(* credential is configured, its action (gemini), and its payload: absent  *)
(* (req.body has no payload), "empty" (an object without the required      *)
(* input) or "full".  The answer of a request is the record of `last`.     *)
(***************************************************************************)
Methods == {"GET", "POST"}
Payloads == {"absent", "empty", "full"}
\* the gemini actions that read an input of the payload, and those that read none
PayloadActions ==
    {"generateMetadataAndPrompt", "generateImageFromPrompt", "analyzeImageForInspiration",
     "analyzeImageForPrint", "upscaleImage"}
PlainActions == {"suggestIdea", "getNicheResearch"}
Actions == PayloadActions \cup PlainActions \cup {"unknown"}

Requests ==
    {[kind |-> "request", handler |-> "clipdrop", method |-> m, keyConfigured |-> k,
      action |-> "none", payload |-> p, phase |-> "received"] :
        m \in Methods, k \in BOOLEAN, p \in Payloads}
    \cup
    {[kind |-> "request", handler |-> "gemini", method |-> m, keyConfigured |-> k,
      action |-> a, payload |-> p, phase |-> "received"] :
        m \in Methods, k \in BOOLEAN, a \in Actions, p \in Payloads}

\* res.status(status).json(...)
Respond(status) == [sent |-> TRUE, status |-> status]
\* an exception leaves the handler: the handler sends no response
Unhandled == [sent |-> FALSE, status |-> 0]
\* the handler suspends at the call of the upstream service
CallUpstream == [sent |-> FALSE, status |-> 1]

\* clipdrop.ts:13-25, to the upstream call; line 17 reads req.body.payload.imageUrl
\* before the credential is looked at and outside the try
clipdropHandler(req) ==
    IF req.method # "POST" THEN Respond(405)
    ELSE IF req.payload = "absent" THEN Unhandled
    ELSE IF ~req.keyConfigured THEN Respond(500)
    ELSE IF req.payload = "empty" THEN Respond(400)
    ELSE CallUpstream

\* part_000:12-37 and 204-209, to the upstream call; `const { x } = payload` of an
\* absent payload throws inside the try, and the catch answers 500
geminiHandler(req) ==
    IF req.method # "POST" THEN Respond(405)
    ELSE IF ~req.keyConfigured THEN Respond(500)
    ELSE IF req.action \in PlainActions THEN CallUpstream
    ELSE IF req.action \in PayloadActions
         THEN IF req.payload = "absent" THEN Respond(500)
              ELSE IF req.payload = "empty" THEN Respond(400)
              ELSE CallUpstream
    ELSE Respond(400)

handler(req) == IF req.handler = "clipdrop" THEN clipdropHandler(req) ELSE geminiHandler(req)

\* what the upstream service does: clipdrop answers ok or an error status or the
\* fetch throws; the gemini client resolves or throws
UpstreamOutcomes(req) ==
    IF req.handler = "clipdrop" THEN {"ok", "status402", "throws"} ELSE {"ok", "throws"}

\* the answer after the upstream call (clipdrop.ts:44-57; the gemini cases and catch)
AfterUpstream(outcome) ==
    CASE outcome = "ok" -> Respond(200)
      [] outcome = "status402" -> Respond(402)
      [] outcome = "throws" -> Respond(500)

Answer(req, response, upstream) ==
    [kind |-> "response", request |-> req, sent |-> response.sent,
     status |-> response.status, upstream |-> upstream]

\* the handler runs from its entry to its response or to its upstream call
ServerHandles(s) ==
    /\ s \in DOMAIN tasks
    /\ tasks[s].kind = "request" /\ tasks[s].phase = "received"
    /\ IF handler(tasks[s]) = CallUpstream
       THEN /\ tasks' = [tasks EXCEPT ![s].phase = "upstream"]
            /\ last' = Step("callUpstream", s, NoTask)
       ELSE /\ tasks' = Remove(s)
            /\ last' = Step("respond", s, Answer(tasks[s], handler(tasks[s]), FALSE))
    /\ NoWrite
    /\ UNCHANGED <<generatedDesigns, ideaPrompt, isLoading, message, isAnalyzing,
                   analysisResult, nextId, applied, clicks>>

UpstreamReturns(s, outcome) ==
    /\ s \in DOMAIN tasks
    /\ tasks[s].kind = "request" /\ tasks[s].phase = "upstream"
    /\ outcome \in UpstreamOutcomes(tasks[s])
    /\ tasks' = Remove(s)
    /\ last' = Step("respond", s, Answer(tasks[s], AfterUpstream(outcome), TRUE))
    /\ NoWrite
    /\ UNCHANGED <<generatedDesigns, ideaPrompt, isLoading, message, isAnalyzing,
                   analysisResult, nextId, applied, clicks>>

ServerInit ==
    /\ generatedDesigns = <<>>
    /\ ideaPrompt = <<>>
    /\ isLoading = FALSE
    /\ message = NoMessage
    /\ isAnalyzing = FALSE
    /\ analysisResult = EmptyAnalysis
    /\ \E req \in Requests : tasks = <<req>>
    /\ nextId = 1
    /\ durable = Serialize(<<>>)
    /\ wrote = "none"
    /\ applied = [id \in DesignIds |-> {}]
    /\ last = Step("request", 0, NoTask)
    /\ clicks = 0

ServerNext ==
    \/ \E s \in Slots : ServerHandles(s)
    \/ \E s \in Slots, outcome \in {"ok", "status402", "throws"} : UpstreamReturns(s, outcome)

ServerSpec == ServerInit /\ [][ServerNext]_vars

(***************************************************************************)
(* The notification and its dismissal timers.  showMessage (lines 37-40)   *)
(* sets the message and starts a timer whose callback is setMessage(null); *)
(* the timers that have not fired yet are the records of kind "timer" of   *)
(* `tasks`, each with the text of the notification it was started for.     *)
(***************************************************************************)
MessageTexts == {"info", "error", "quota"}

\* a handler calls showMessage(text, isError)
Notify(text, isError) ==
    /\ UserAction
    /\ HasFreeSlot
    /\ message' = showMessage(text, isError)
    /\ tasks' = Append(tasks, [kind |-> "timer", text |-> text])
    /\ NoWrite
    /\ last' = Step("showMessage", 0, NoTask)
    /\ UNCHANGED <<generatedDesigns, ideaPrompt, isLoading, isAnalyzing, analysisResult,
                   nextId, applied>>

\* the 5000 ms of a timer have passed: () => setMessage(null); the timers have
\* the same delay, so they fire in the order they were started
TimerFires(s) ==
    /\ s \in DOMAIN tasks
    /\ tasks[s].kind = "timer"
    /\ \A earlier \in 1..(s - 1) : tasks[earlier].kind # "timer"
    /\ message' = NoMessage
    /\ tasks' = Remove(s)
    /\ NoWrite
    /\ last' = Step("timerFires", s, tasks[s])
    /\ UNCHANGED <<generatedDesigns, ideaPrompt, isLoading, isAnalyzing, analysisResult,
                   nextId, applied, clicks>>

MessageNext ==
    \/ \E text \in MessageTexts : Notify(text, text # "info")
    \/ \E s \in Slots : TimerFires(s)

MessageSpec == Init /\ [][MessageNext]_vars

(***************************************************************************)
(* Upload & Inspire alone: the file input is never disabled                *)
(* (UploadAnalysis.tsx:124), so a file can be chosen while the handler of  *)
(* an earlier file is suspended.                                           *)
(***************************************************************************)
UploadFiles == Files \cup {[name |-> "fileB", width |-> 3000, height |-> 4000]}

UploadNext ==
    \/ \E file \in UploadFiles : handleImageUpload(file)
    \/ \E s \in Slots : UploadReadOk(s)
    \/ \E s \in Slots, which \in {"inspiration", "print"} :
          \E response \in SchemaResponses(which) : UploadAnalysisOk(s, which, response)
    \/ \E s \in Slots : UploadFail(s)

UploadSpec == Init /\ [][UploadNext]_vars

(***************************************************************************)
(* The uploads of a session under the assumption that the file read, the   *)
(* image decode and every gateway call eventually succeed or fail.         *)
(***************************************************************************)
UploadReturns ==
    \/ \E s \in Slots : UploadReadOk(s)
    \/ \E s \in Slots : UploadDecodeFails(s)
    \/ \E s \in Slots, which \in {"inspiration", "print"} :
          \E response \in SchemaResponses(which) : UploadAnalysisOk(s, which, response)
    \/ \E s \in Slots : UploadFail(s)

UploadLiveNext ==
    \/ \E file \in UploadFiles : handleImageUpload(file)
    \/ UploadReturns

UploadLiveSpec == Init /\ [][UploadLiveNext]_vars /\ WF_vars(UploadReturns)

(***************************************************************************)
(* Properties.                                                             *)
(***************************************************************************)
Bulks == {s \in DOMAIN tasks : tasks[s].kind = "bulk"}

\* no removeBackground or upscale of design id is suspended
NoTransformInFlight(id) ==
    \A s \in DOMAIN tasks : tasks[s].kind \in Transforms => tasks[s].id # id

RECURSIVE IsSubseq(_, _)
\* xs is ys with some elements left out
IsSubseq(xs, ys) ==
    IF xs = <<>> THEN TRUE
    ELSE IF ys = <<>> THEN FALSE
    ELSE IF Head(xs) = Head(ys) THEN IsSubseq(Tail(xs), Tail(ys))
    ELSE IsSubseq(xs, Tail(ys))

IdSeq(designs) == [k \in DOMAIN designs |-> designs[k].id]

\* every design of the list before the step is in the list after it, in the same relative order
Kept == IsSubseq(IdSeq(generatedDesigns), IdSeq(generatedDesigns'))

RECURSIVE Successes(_, _)
\* the ideas among the first Len(outcomes) whose generation succeeded, in order
Successes(ideas, outcomes) ==
    IF outcomes = <<>> THEN <<>>
    ELSE IF Head(outcomes) THEN <<Head(ideas)>> \o Successes(Tail(ideas), Tail(outcomes))
    ELSE Successes(Tail(ideas), Tail(outcomes))

\* C1: a revert that follows completed transforms (none is in flight for the
\* design) leaves the design with imageUrl = originalImageUrl and both flags false.
C1_RevertRestores ==
    (last.op = "revert" /\ Has(generatedDesigns, last.id) /\ NoTransformInFlight(last.id)) =>
        /\ Find(generatedDesigns, last.id).imageUrl = Find(generatedDesigns, last.id).originalImageUrl
        /\ ~Find(generatedDesigns, last.id).bgRemoved
        /\ ~Find(generatedDesigns, last.id).upscaled

\* C2: in every reachable state bgRemoved (upscaled) is true only if the current
\* imageUrl came out of background removal (upscaling) since the last revert.
C2_FlagsTrackTransforms ==
    \A k \in DOMAIN generatedDesigns :
        /\ generatedDesigns[k].bgRemoved => "bg" \in applied[generatedDesigns[k].id]
        /\ generatedDesigns[k].upscaled => "up" \in applied[generatedDesigns[k].id]

\* a start of the application: the store is created from the slot
StartsSession(step) == step.op \in {"start", "startFailed"}

BulkReplaces(step) ==
    \/ step.op = "bulkStart"
    \/ step.op \in {"bulkNext", "bulkEnd"} /\ step.task.outcomes[Len(step.task.outcomes)]

BatchSound(t) ==
    /\ Len(t.outcomes) = t.i
    /\ Len(t.newDesigns) = Len(Successes(t.ideas, t.outcomes))
    /\ \A k \in DOMAIN t.newDesigns :
          t.newDesigns[k].originalIdea = Successes(t.ideas, t.outcomes)[k]
    /\ \A j, k \in DOMAIN t.newDesigns : j # k => t.newDesigns[j].id # t.newDesigns[k].id

\* C4: when a generation of a batch ends the batch has attempted every idea up
\* to it exactly once, whatever failed, and when the loop ends every idea has
\* been attempted and the designs produced are one per successful idea, in order.
C4_BulkCollectsSuccesses ==
    /\ last.op \in {"bulkNext", "bulkEnd"} => BatchSound(last.task)
    /\ last.op = "bulkNext" => last.task.i < Len(last.task.ideas)
    /\ last.op = "bulkEnd" => last.task.i = Len(last.task.ideas)

\* C4 witness: a batch of two ideas ended, its first idea failed, its second succeeded
C4_Witness == last.op = "bulkEnd" /\ last.task.outcomes = <<FALSE, TRUE>>

\* C5: a batch has at most one gateway request outstanding, it is for the idea
\* that follows the ideas whose generation ended, and an image request is
\* outstanding only after the metadata+prompt request of its idea succeeded.
C5_BulkSequential ==
    \A s \in Bulks :
        /\ Cardinality(tasks[s].req) <= 1
        /\ \A r \in tasks[s].req :
              /\ r.idx = Len(tasks[s].outcomes) + 1
              /\ r.idx = tasks[s].i
              /\ r.kind = "image" => tasks[s].metadata # NoMetadata
              /\ r.kind = "meta" => tasks[s].metadata = NoMetadata

\* C5 witness: the image request of a batch's second idea is outstanding
C5_Witness == \E s \in Bulks : tasks[s].req = {Request(2, "image")}

\* C6: at most one bulk-generation loop is in progress.
C6_OneBulkLoop == Cardinality(Bulks) <= 1

\* C7: the step of a failed removeBackground or upscale, and of a failed
\* generation of a remix or of a generate-from-suggestion, leaves the store as
\* it was and shows an error message.
C7_FailureKeepsStore ==
    [][last'.op \in {"transformFail", "remixFail", "fromIdeaFail"} =>
          (generatedDesigns' = generatedDesigns /\ message'.isError)]_vars

\* C7 witness: a transform of a design of the store failed
C7_Witness == last.op = "transformFail" /\ Has(generatedDesigns, last.id)

\* C8: a design that is in the store before and after a step has the same
\* originalImageUrl, originalIdea and metadata, and an update of a record or an
\* append keeps the id of every position.
C8_CreationFieldsImmutable ==
    [][/\ \A j \in DOMAIN generatedDesigns, k \in DOMAIN generatedDesigns' :
             generatedDesigns[j].id = generatedDesigns'[k].id =>
                /\ generatedDesigns'[k].originalImageUrl = generatedDesigns[j].originalImageUrl
                /\ generatedDesigns'[k].originalIdea = generatedDesigns[j].originalIdea
                /\ generatedDesigns'[k].metadata = generatedDesigns[j].metadata
       /\ last'.op \in {"transformOk", "revert", "remixOk", "fromIdeaOk"} =>
             \A j \in DOMAIN generatedDesigns :
                 j \in DOMAIN generatedDesigns' /\ generatedDesigns'[j].id = generatedDesigns[j].id
      ]_vars

\* C8 witness: a transform replaced the imageUrl of a design, whose original is another image
C8_Witness ==
    /\ last.op = "transformOk"
    /\ Has(generatedDesigns, last.id)
    /\ Find(generatedDesigns, last.id).imageUrl # Find(generatedDesigns, last.id).originalImageUrl

\* C9: removeBackground on a design with bgRemoved, and upscale on a design with
\* upscaled, issue no request and leave the store unchanged.
C9_ReapplyIsNoOp ==
    [][/\ (/\ last'.op = "removeBackground"
           /\ Has(generatedDesigns, last'.id)
           /\ Find(generatedDesigns, last'.id).bgRemoved)
          => UNCHANGED <<tasks, generatedDesigns, applied, message>>
       /\ (/\ last'.op = "upscale"
           /\ Has(generatedDesigns, last'.id)
           /\ Find(generatedDesigns, last'.id).upscaled)
          => UNCHANGED <<tasks, generatedDesigns, applied, message>>
      ]_vars

\* C9 witness: removeBackground was called on a design whose background was removed
C9_Witness ==
    /\ last.op = "removeBackground"
    /\ Has(generatedDesigns, last.id)
    /\ Find(generatedDesigns, last.id).bgRemoved

\* C10: the step of a successful remix appends one design to the end of the
\* store, with an id no design of the store has, the idea of the remixed design,
\* imageUrl = originalImageUrl and both flags false, and changes no other design.
C10_RemixAppends ==
    [][last'.op = "remixOk" =>
          /\ Len(generatedDesigns') = Len(generatedDesigns) + 1
          /\ SubSeq(generatedDesigns', 1, Len(generatedDesigns)) = generatedDesigns
          /\ ~Has(generatedDesigns, generatedDesigns'[Len(generatedDesigns')].id)
          /\ generatedDesigns'[Len(generatedDesigns')].originalIdea = last'.task.ideas[1]
          /\ Has(generatedDesigns, last'.id) =>
                generatedDesigns'[Len(generatedDesigns')].originalIdea =
                    Find(generatedDesigns, last'.id).originalIdea
          /\ generatedDesigns'[Len(generatedDesigns')].imageUrl =
                generatedDesigns'[Len(generatedDesigns')].originalImageUrl
          /\ ~generatedDesigns'[Len(generatedDesigns')].bgRemoved
          /\ ~generatedDesigns'[Len(generatedDesigns')].upscaled
      ]_vars

\* C10 witness: a remix succeeded while the remixed design was in the store
C10_Witness == last.op = "remixOk" /\ Has(generatedDesigns, last.id) /\ Len(generatedDesigns) = 2

\* the steps that append one design to the list
Appends == {"remixOk", "fromIdeaOk"}

\* C11: a step whose write succeeds leaves in the slot the serialization of the
\* whole list it leaves in memory, and a step that writes nothing changes
\* neither the list nor the slot: the slot mirrors the list whenever the last
\* write succeeded.
C11_DurableMirrorsMemory ==
    [][/\ wrote' = "ok" => durable' = Serialize(generatedDesigns')
       /\ wrote' = "none" => UNCHANGED <<generatedDesigns, durable>>]_vars

\* C11 witness: the update of a single record was written to the slot
C11_Witness ==
    /\ wrote = "ok"
    /\ last.op = "transformOk"
    /\ Has(generatedDesigns, last.id)
    /\ durable = Serialize(generatedDesigns)

\* C12: a step whose write fails for the quota leaves the slot as it was, shows
\* the error that designs could not be saved, and leaves in memory the whole
\* list of the mutation (the append, the replacement, the update), which is
\* the list that did not fit.
C12_QuotaKeepsMemory ==
    [][wrote' = "quota" =>
          /\ durable' = durable
          /\ message' = showMessage("quota", TRUE)
          /\ Size(Serialize(generatedDesigns')) > StorageQuota
          /\ last'.op \in Appends =>
                /\ Len(generatedDesigns') = Len(generatedDesigns) + 1
                /\ SubSeq(generatedDesigns', 1, Len(generatedDesigns)) = generatedDesigns
          /\ last'.op \in {"bulkNext", "bulkEnd"} =>
                generatedDesigns' = last'.task.newDesigns
          /\ last'.op \in {"transformOk", "revert"} =>
                IdSeq(generatedDesigns') = IdSeq(generatedDesigns)
      ]_vars

\* C12 witness: the write of an appended design failed for the quota
C12_Witness ==
    /\ wrote = "quota"
    /\ last.op \in Appends
    /\ Len(generatedDesigns) > Size(durable)

\* C13: a start of the application never fails, yields the list whose
\* serialization the slot holds when it holds one, and yields the empty list
\* for every other content of the slot.
C13_StartLoadsList ==
    [][last'.op \in {"start", "startFailed"} =>
          /\ last'.op = "start"
          /\ IF durable.kind = "array"
             THEN Serialize(generatedDesigns') = durable
             ELSE generatedDesigns' = <<>>
      ]_vars

\* C14: the ids of the store are distinct and follow the order of creation.
C14_UniqueIdsInOrder ==
    \A j, k \in DOMAIN generatedDesigns :
        j < k => generatedDesigns[j].id < generatedDesigns[k].id

\* C14 witness: a batch of two ideas ended with its two designs in the store
C14_Witness == last.op = "bulkEnd" /\ Len(generatedDesigns) = 2

\* C15: a confirmed clear leaves the empty list, and a declined clear leaves the
\* store, the slot and the notification as they were.
C15_ClearOnlyOnConfirm ==
    [][/\ last'.op = "clear" => generatedDesigns' = <<>>
       /\ last'.op = "clearDeclined" => UNCHANGED <<generatedDesigns, durable, message>>]_vars

\* C15 witness: a clear was declined while a notification was shown
C15_Witness ==
    /\ last.op = "clearDeclined"
    /\ generatedDesigns # <<>>
    /\ message # NoMessage

\* the displayed report of an upload whose print response had no resolution entry
LocalVerdictShown ==
    /\ last.op = "uploadAnalysisOk"
    /\ analysisResult # EmptyAnalysis
    /\ "resolution" \notin DOMAIN last.task.print

\* C16: for all image dimensions the locally computed resolution verdict is
\* pass exactly when width >= 4500 and height >= 5400 and warn otherwise, and it
\* carries an upscaling suggestion exactly when it is warn (5000x5500 passes
\* with no suggestion, 3000x4000 warns with a suggestion).
C16_ResolutionVerdict ==
    LocalVerdictShown =>
        LET image == analysisResult.uploadedImage
            verdict == analysisResult.printReport.resolution
        IN /\ verdict.status = (IF image.width >= 4500 /\ image.height >= 5400
                                THEN "pass" ELSE "warn")
           /\ (verdict.suggestion # "null") <=> (verdict.status = "warn")
           /\ (image.width = 5000 /\ image.height = 5500) =>
                  verdict.status = "pass" /\ verdict.suggestion = "null"
           /\ (image.width = 3000 /\ image.height = 4000) =>
                  verdict.status = "warn" /\ verdict.suggestion = "upscale"

\* an image wide enough but one pixel too short has been analysed and warns
C16_Witness ==
    /\ LocalVerdictShown
    /\ analysisResult.uploadedImage.width = 4500
    /\ analysisResult.uploadedImage.height = 5399
    /\ analysisResult.printReport.resolution.status = "warn"

\* C17: the resolution entry of the final print report depends only on the
\* uploaded image's dimensions: whatever fields the gateway's print response
\* contains, the entry of the merged report is the locally computed verdict.
C17_ResolutionIsLocal ==
    analysisResult # EmptyAnalysis =>
        analysisResult.printReport.resolution =
            ResolutionVerdict(analysisResult.uploadedImage.width,
                              analysisResult.uploadedImage.height)

\* the step populates the AnalysisResult
Populates == analysisResult' # analysisResult /\ analysisResult' # EmptyAnalysis

\* C18: the AnalysisResult is reset to empty when an upload starts; it becomes
\* non-empty only when both analyses of an upload have returned successfully,
\* all three fields being set together; if an analysis fails the result stays
\* empty and an error notification is shown.
C18_AnalysisLifecycle ==
    [][/\ last'.op = "imageUpload" => analysisResult' = EmptyAnalysis
       /\ Populates =>
              /\ last'.op = "uploadAnalysisOk"
              /\ ~last'.task.inspiration.isNull /\ last'.task.print # NoPrint
              /\ analysisResult'.printReport # NoPrint
              /\ analysisResult'.inspiration = last'.task.inspiration
              /\ analysisResult'.uploadedImage = last'.task.file
       /\ (last'.op = "uploadFail" /\ last'.task.phase = "analyze") =>
              analysisResult' = EmptyAnalysis /\ message'.isError]_vars

\* C19: once a new upload has begun the AnalysisResult never again holds the
\* outcome of an earlier upload: no upload's outcome is put in the result
\* while an upload that began after it is running (tasks is in start order).
C19_NoStaleAnalysis ==
    [][(last'.op = "uploadAnalysisOk" /\ Populates) =>
          ~\E later \in DOMAIN tasks :
              later > last'.id /\ tasks[later].kind = "upload"]_vars

\* C20: for every store snapshot the metadata export produces exactly one row
\* per design, in store order, whose Title, Description, Tags, Type and Color
\* are the design's metadata fields and whose OriginalIdea is the design's
\* originalIdea; the export does not modify the store.
C20_ExportRows ==
    [][last'.op = "downloadMetadata" =>
          LET rows == last'.task.rows
          IN /\ UNCHANGED <<generatedDesigns, durable>>
             /\ DOMAIN rows = DOMAIN generatedDesigns
             /\ \A k \in DOMAIN rows :
                   /\ rows[k].Title = generatedDesigns[k].metadata.Title
                   /\ rows[k].Description = generatedDesigns[k].metadata.Description
                   /\ rows[k].Tags = generatedDesigns[k].metadata.Tags
                   /\ rows[k].Type = generatedDesigns[k].metadata.Type
                   /\ rows[k].Color = generatedDesigns[k].metadata.Color
                   /\ rows[k].OriginalIdea = generatedDesigns[k].originalIdea]_vars

\* a store of two designs of different metadata and ideas has been exported
C20_Witness ==
    /\ last.op = "downloadMetadata"
    /\ Len(last.task.rows) = 2
    /\ last.task.rows[1].Title # last.task.rows[2].Title
    /\ last.task.rows[1].OriginalIdea # last.task.rows[2].OriginalIdea

\* the title has an alphanumeric character
HasAlphanumeric(title) ==
    \E k \in DOMAIN title : title[k] \in LowerCase \cup UpperCase \cup Digits

\* C21: packageImages names the entry of each design '<slug>.png', the slug
\* being the Title lower-cased with every character outside a-z/0-9 replaced
\* by '_', and uses the positional name 'design_<index+1>' whenever the Title
\* is empty or contains no alphanumeric character.
C21_EntryNames ==
    last.op = "downloadAll" =>
        \A k \in DOMAIN generatedDesigns :
            /\ last.task.entries[k].name.extension = ".png"
            /\ last.task.entries[k].name.stem =
                  IF HasAlphanumeric(generatedDesigns[k].metadata.Title)
                  THEN Slug(generatedDesigns[k].metadata.Title)
                  ELSE <<"design_", k>>

\* C22: saving in the text-overlay editor replaces only the edited design's
\* imageUrl and leaves the rest of the store unchanged; Cancel mutates nothing.
\* The editor of a design is reached through the Edit button of its card only,
\* so the claim's save requires that a click on Edit opens the editor.
C22_EditOpensEditor == last.op = "edit" => last.task.kind = "editor"

\* C23: a bulk generation started on an idea list that is empty after trimming
\* and dropping the blank lines is rejected with an error notification and
\* changes nothing else: the store and its mirror are kept, no request is
\* issued (no handler is suspended) and isLoading stays false; a bulk
\* generation that starts has a non-empty idea list.
C23_EmptyBulkRejected ==
    [][/\ (last'.op \in {"bulkRejected", "bulkStart"}) =>
              ((last'.op = "bulkRejected") <=> (ParseIdeas(ideaPrompt) = <<>>))
       /\ last'.op = "bulkRejected" =>
              /\ message' = showMessage("error", TRUE)
              /\ ~isLoading /\ ~isLoading'
              /\ UNCHANGED <<generatedDesigns, durable, tasks, ideaPrompt,
                             isAnalyzing, analysisResult, nextId>>]_vars

\* a list of one blank line was rejected while the store held a design
C23_Witness ==
    /\ last.op = "bulkRejected"
    /\ ideaPrompt = <<" ">>
    /\ generatedDesigns # <<>>

\* C24: when every gateway call eventually returns or fails, every started
\* bulk batch eventually finishes its loop over all its ideas and sets
\* isLoading to false, whatever number of its ideas fail.
C24_BulkTerminates ==
    (Bulks # {}) ~> (last.op = "bulkEnd" /\ ~isLoading
                     /\ Len(last.task.outcomes) = Len(last.task.ideas))

\* a batch of two ideas ended after both generations failed
C24_Witness ==
    /\ last.op = "bulkEnd"
    /\ last.task.outcomes = <<FALSE, FALSE>>
    /\ ~isLoading

\* the removeBackground and upscale requests of design id that are in flight
TransformsInFlight(id) ==
    {s \in DOMAIN tasks : tasks[s].kind \in Transforms /\ tasks[s].id = id}

\* C25: for one design at most one transform request (removeBackground or
\* upscale) is in flight at any time, and no revert is accepted while one is
\* in flight, under any sequence of UI actions.
C25_OneTransformPerDesign ==
    /\ \A id \in DesignIds : Cardinality(TransformsInFlight(id)) <= 1
    /\ last.op = "revert" => TransformsInFlight(last.id) = {}

\* C26: after a confirmed clear the completion of an operation started before
\* it adds no design and restores none: the store stays empty until the user
\* starts a new generation or remix.  The handlers suspended right after the
\* clear were all started before it, and a completion is a step that is not a
\* user action.
C26_ClearIsFinal ==
    [][(last.op = "clear" /\ clicks' = clicks) => generatedDesigns' = <<>>]_vars

\* C27: the completion of a removeBackground or upscale request modifies
\* exactly the record with the request's id, no other record, and adds none;
\* when the store no longer holds that id the store is left unchanged.
C27_UpdateOnlyById ==
    [][last'.op = "transformOk" =>
          /\ Len(generatedDesigns') = Len(generatedDesigns)
          /\ \A k \in DOMAIN generatedDesigns :
                generatedDesigns[k].id # last'.id => generatedDesigns'[k] = generatedDesigns[k]
          /\ ~Has(generatedDesigns, last'.id) => generatedDesigns' = generatedDesigns]_vars

\* a transform of a design that left the store completed while the store held
\* another design
C27_Witness ==
    /\ last.op = "transformOk"
    /\ ~Has(generatedDesigns, last.id)
    /\ generatedDesigns # <<>>

\* C28: a notification is removed only by its own dismissal timer or by being
\* replaced by a newer notification: a timer that was started for another
\* notification than the one shown (its text differs) does not dismiss it.
C28_OwnTimerDismisses ==
    [][(last'.op = "timerFires" /\ message # NoMessage /\ last'.task.text # message.text)
          => message' = message]_vars

\* C29: every upload analysis eventually ends with isAnalyzing false, whether
\* the file read, the image decode or either analysis succeeds or fails.
C29_UploadEnds == isAnalyzing ~> ~isAnalyzing

\* the request lacks the input its handler requires: no payload object, a
\* payload without the input, or an unknown action
MissingInput(req) ==
    IF req.handler = "clipdrop" THEN req.payload # "full"
    ELSE \/ req.action \notin PayloadActions \cup PlainActions
         \/ req.action \in PayloadActions /\ req.payload # "full"

\* C30: each handler answers every request with exactly one response, decided
\* in this order: 405 for a non-POST method, 500 when the credential is not
\* configured, 400 when the required input is missing (an absent payload
\* object included), and otherwise the upstream result or its error; no
\* upstream call is made for a request answered 405, 500-unconfigured or 400.
C30_ResponseOrder ==
    last.op = "respond" =>
        LET req == last.task.request
        IN /\ last.task.sent
           /\ IF req.method # "POST" THEN last.task.status = 405 /\ ~last.task.upstream
              ELSE IF ~req.keyConfigured THEN last.task.status = 500 /\ ~last.task.upstream
              ELSE IF MissingInput(req) THEN last.task.status = 400 /\ ~last.task.upstream
              ELSE last.task.upstream /\ last.task.status \in {200, 402, 500}

====
